---- MODULE Spec2Model ----
(***************************************************************************)
(* Model of the recipe edit page (second script of                         *)
(* src/backend/web/webapp/edit-description.js, lines 190-535): the form    *)
(* (title, category), the two local draft tiers (sessionStorage,           *)
(* localStorage), the remote draft cache, the authoritative recipe API     *)
(* and the asynchronous chains started by load(), save(), the hand-off     *)
(* buttons and the pageshow / visibilitychange handlers.                   *)
(*                                                                         *)
(* Strings are sequences of one-character strings so that trim() is        *)
(* computed.  The "ts" field of a stored draft is written but never read   *)
(* by the page and is left out of the stored value.                        *)
(***************************************************************************)
EXTENDS Integers, Sequences, FiniteSets, TLC

VARIABLES
    recipeId,    \* Number(qs.get("recipe_id") || 0)
    initData,    \* TRUE iff tg && tg.initData is non-empty
    ssMode,      \* behaviour of sessionStorage: "ok", "full", "denied"
    lsMode,      \* behaviour of localStorage
    ss,          \* raw value under draftKey() in sessionStorage
    ls,          \* raw value under draftKey() in localStorage
    title,       \* $title.value
    category,    \* Number($category.value || 0); 0 is the empty value
    options,     \* option values of $category, in document order
    busy,        \* $save.disabled
    err,         \* kind of message in $err ("" when empty)
    ok,          \* TRUE iff $ok shows "Saved"
    srvTitle,    \* title of the recipe on the server
    srvCat,      \* category_id of the recipe on the server
    remote,      \* draft held by the remote draft cache
    chPc,        \* position of each asynchronous chain
    chGets,      \* remote draft GETs issued by each chain
    chFetches,   \* recipe GETs issued by each chain
    chFailed,    \* TRUE iff the chain's load() was rejected
    savePc,      \* position of save()
    saveBody,    \* body of the PATCH in flight
    handoff,     \* the hand-off click handler: position, target, PUT body
    opLog,       \* kinds of draft / network operations performed so far
    last,        \* the handler that ran last, with what it found
    expect       \* ghost: what one firing of a return event leads to

vars == <<recipeId, initData, ssMode, lsMode, ss, ls, title, category,
          options, busy, err, ok, srvTitle, srvCat, remote,
          chPc, chGets, chFetches, chFailed, savePc, saveBody, handoff,
          opLog, last, expect>>

----------------------------------------------------------------------------
(* Bounds *)

MaxTriggers == 2

----------------------------------------------------------------------------
(* Values *)

SP == " "

Empty == <<>>

Undef == <<"undefined">>

TitleA == <<"A">>

TitleB == <<"B", SP>>

TitleS == <<"S">>

TitleR == <<"R">>

Blanks == <<SP>>

UserTitles == {Empty, Blanks, TitleB}

\* the categories the server lists, and their ids
CatList == <<1, 2>>

CatIds == {CatList[i] : i \in DOMAIN CatList}

OptionValues(opts) == {opts[i] : i \in DOMAIN opts}

Chains == 0 .. MaxTriggers

Triggers == 1 .. MaxTriggers

RECURSIVE TrimStart(_)
TrimStart(s) ==
    IF s = <<>> THEN <<>>
    ELSE IF Head(s) = SP THEN TrimStart(Tail(s)) ELSE s

RECURSIVE TrimEnd(_)
TrimEnd(s) ==
    IF s = <<>> THEN <<>>
    ELSE IF s[Len(s)] = SP THEN TrimEnd(SubSeq(s, 1, Len(s) - 1)) ELSE s

Trim(s) == TrimEnd(TrimStart(s))

IsString(v) == v # Undef

\* typeof v === "string" && v.trim()
HasText(v) == IsString(v) /\ Trim(v) # Empty

----------------------------------------------------------------------------
(* Raw storage values and JSON *)

Raw(k, t, c) == [kind |-> k, title |-> t, category_id |-> c]

Absent == Raw("absent", Empty, 0)

Garbage == Raw("garbage", Empty, 0)

Draft(t, c) == [def |-> TRUE, title |-> t, category_id |-> c]

NoDraft == [def |-> FALSE, title |-> Undef, category_id |-> 0]

JSONstringify(d) == Raw("obj", d.title, d.category_id)

\* JSON.parse followed by the object test of readDraft; a parse error and a
\* non-object value both end in null
JSONparseDraft(raw) ==
    IF raw.kind = "obj" THEN Draft(raw.title, raw.category_id) ELSE NoDraft

sessionGetThrows == ssMode = "denied"

localGetThrows == lsMode = "denied"

storageGet ==
    IF ~sessionGetThrows /\ ss.kind # "absent" THEN ss
    ELSE IF localGetThrows THEN Absent ELSE ls

readDraft ==
    LET raw == storageGet
    IN  IF raw.kind = "absent" THEN NoDraft ELSE JSONparseDraft(raw)

storageSet_session(val) == IF ssMode = "ok" THEN val ELSE ss

storageSet_local(val) == IF lsMode = "ok" THEN val ELSE ls

storageRemove_session == IF ssMode = "denied" THEN ss ELSE Absent

storageRemove_local == IF lsMode = "denied" THEN ls ELSE Absent

----------------------------------------------------------------------------
(* writeDraft *)

MergeTitle_NoFallback(titleNow, prev) == titleNow

MergeTitle(titleNow, prev) ==
    IF titleNow # Empty THEN titleNow
    ELSE IF HasText(prev.title) THEN prev.title ELSE Empty

MergeCategory(categoryIdNow, prev) ==
    IF categoryIdNow # 0 THEN categoryIdNow ELSE prev.category_id

\* the object handed to storageSet by writeDraft for form values t, c
MergedDraft(t, c) ==
    LET prev == readDraft
    IN  Draft(MergeTitle(Trim(t), prev), MergeCategory(c, prev))

writeDraft_Skipped(t, c) == UNCHANGED <<ss, ls>>

\* writeDraft() with the form showing title t and category c
writeDraft(t, c) ==
    IF recipeId = 0
    THEN UNCHANGED <<ss, ls>>
    ELSE /\ ss' = storageSet_session(JSONstringify(MergedDraft(t, c)))
         /\ ls' = storageSet_local(JSONstringify(MergedDraft(t, c)))

writeDraftOps == IF recipeId = 0 THEN {} ELSE {"localRead", "localWrite"}

----------------------------------------------------------------------------
(* restoreDraftIntoForm / restoreDraftFromRedisIntoForm: overlay of a draft *)

OverlayTitle_Keep(d, t) == t

OverlayTitle(d, t) == IF d.def /\ HasText(d.title) THEN d.title ELSE t

OverlayCategory(d, c, opts) ==
    IF d.def /\ d.category_id # 0 /\ d.category_id \in opts
    THEN d.category_id ELSE c

\* $category.value = v on a select: an unknown value leaves nothing selected
SelectValue(v, opts) == IF v \in opts THEN v ELSE 0

----------------------------------------------------------------------------
(* Bookkeeping *)

\* load() throws before doing anything
LoadThrows == recipeId = 0 \/ ~initData

\* the script has run: listeners are registered and load() was called
Started == chPc[0] # "idle"

\* the page is still shown: save() has not closed it and no hand-off has
\* navigated away
Alive == Started /\ savePc # "saved" /\ handoff.pc # "navigated"

InFlight(c) == chPc[c] \in {"esc_get", "load_fetch", "load_get"}

\* nothing asynchronous is pending
Quiescent ==
    /\ \A c \in Chains : ~InFlight(c)
    /\ savePc # "patch"
    /\ handoff.pc # "put"

\* operations are logged once a precondition error has been surfaced
Log(ops) == IF LoadThrows THEN opLog \cup ops ELSE opLog

Last(ev, c, res) == [ev |-> ev, c |-> c, res |-> res]

FreeSlots == {c \in Triggers : ~InFlight(c)}

NextSlot == CHOOSE c \in FreeSlots : \A d \in FreeSlots : c <= d

cfg == <<recipeId, initData, ssMode, lsMode>>

env == <<cfg, expect>>

form == <<title, category, options>>

server == <<srvTitle, srvCat>>

chain == <<chPc, chGets, chFetches, chFailed>>

----------------------------------------------------------------------------
(* The script body: load().catch(setErr).finally(setBusy(false)) *)

Start ==
    /\ chPc[0] = "idle"
    /\ IF LoadThrows
       THEN /\ err' = "precondition"
            /\ ok' = FALSE
            /\ busy' = FALSE
            /\ chPc' = [chPc EXCEPT ![0] = "done"]
            /\ chFailed' = [chFailed EXCEPT ![0] = TRUE]
            /\ UNCHANGED chFetches
       ELSE /\ busy' = TRUE
            /\ chPc' = [chPc EXCEPT ![0] = "load_fetch"]
            /\ chFetches' = [chFetches EXCEPT ![0] = 1]
            /\ UNCHANGED <<err, ok, chFailed>>
    /\ last' = Last("start", 0, "")
    /\ UNCHANGED <<env, ss, ls, form, server, remote, chGets,
                   savePc, saveBody, handoff, opLog>>

----------------------------------------------------------------------------
(* Edit events and page-hide: all three listeners are writeDraft *)

Input(t) ==
    /\ Alive
    /\ title' = t
    /\ writeDraft(t, category)
    /\ opLog' = Log(writeDraftOps)
    /\ last' = Last("input", -1, "")
    /\ UNCHANGED <<env, category, options, busy, err, ok, server,
                   remote, chain, savePc, saveBody, handoff>>

Change(c) ==
    /\ Alive
    /\ c \in OptionValues(options)
    /\ category' = c
    /\ writeDraft(title, c)
    /\ opLog' = Log(writeDraftOps)
    /\ last' = Last("change", -1, "")
    /\ UNCHANGED <<env, title, options, busy, err, ok, server,
                   remote, chain, savePc, saveBody, handoff>>

Pagehide ==
    /\ Started
    /\ writeDraft(title, category)
    /\ opLog' = Log(writeDraftOps)
    /\ last' = Last("pagehide", -1, "")
    /\ UNCHANGED <<env, form, busy, err, ok, server, remote, chain,
                   savePc, saveBody, handoff>>

----------------------------------------------------------------------------
(* Hand-off buttons: writeDraft(); await putDraftToRedis(); location.href *)

HandoffClick(to) ==
    /\ Alive
    /\ handoff.pc = "idle"
    /\ writeDraft(title, category)
    /\ handoff' = [pc |-> "put", to |-> to,
                   body |-> Draft(Trim(title), category)]
    /\ opLog' = Log(writeDraftOps \cup {"remotePut"})
    /\ last' = Last("handoff", -1, "")
    /\ UNCHANGED <<env, form, busy, err, ok, server, remote, chain,
                   savePc, saveBody>>

BtnDescClick == HandoffClick("edit-description")

BtnIngClick == HandoffClick("edit-ingredients")

\* the PUT is answered; a failure is swallowed by putDraftToRedis; the
\* handler resumes and assigns location.href
PutResponse(res) ==
    /\ handoff.pc = "put"
    /\ remote' = IF res = "ok" THEN handoff.body ELSE remote
    /\ handoff' = [handoff EXCEPT !.pc = "navigated"]
    /\ last' = Last("navigate", -1, res)
    /\ UNCHANGED <<env, ss, ls, form, busy, err, ok, server, chain,
                   savePc, saveBody, opLog>>

----------------------------------------------------------------------------
(* Save button: save().catch(setErr).finally(setBusy(false)) *)

SaveRejects_TitleOnly(t, c) == Trim(t) = Empty

\* the two throws of save() ahead of the PATCH
SaveRejects(t, c) == Trim(t) = Empty \/ c = 0

SaveClick ==
    /\ Alive
    /\ ~busy
    /\ savePc = "idle"
    /\ ok' = FALSE
    /\ IF SaveRejects(title, category)
       THEN /\ err' = IF Trim(title) = Empty THEN "title_empty"
                      ELSE "no_category"
            /\ busy' = FALSE
            /\ UNCHANGED <<savePc, saveBody>>
       ELSE /\ err' = ""
            /\ busy' = TRUE
            /\ savePc' = "patch"
            /\ saveBody' = Draft(Trim(title), category)
    /\ opLog' = IF SaveRejects(title, category) THEN opLog
                ELSE Log({"patch"})
    /\ last' = Last(IF SaveRejects(title, category) THEN "save_rejected"
                    ELSE "save_click", -1, "")
    /\ UNCHANGED <<env, ss, ls, form, server, remote, chain, handoff>>

ClearOnPatch_Always(res) == TRUE

\* clearDraft() is reached only past the awaited PATCH
ClearOnPatch(res) == res = "ok"

PatchResponse(res) ==
    /\ savePc = "patch"
    /\ IF res = "ok"
       THEN /\ srvTitle' = saveBody.title
            /\ srvCat' = saveBody.category_id
            /\ ok' = TRUE
            /\ err' = ""
            /\ savePc' = "saved"
       ELSE /\ err' = "patch"
            /\ ok' = FALSE
            /\ savePc' = "idle"
            /\ UNCHANGED server
    /\ IF ClearOnPatch(res)
       THEN /\ ss' = storageRemove_session
            /\ ls' = storageRemove_local
            /\ opLog' = Log({"localClear"})
       ELSE UNCHANGED <<ss, ls, opLog>>
    /\ busy' = FALSE
    /\ saveBody' = NoDraft
    /\ last' = Last(IF res = "ok" THEN "save_ok" ELSE "save_fail", -1, res)
    /\ UNCHANGED <<env, form, remote, chain, handoff>>

----------------------------------------------------------------------------
(* pageshow / visibilitychange *)

Escalates_Always(t) == TRUE

\* the handlers' test !($title.value).trim() on the title t they see
Escalates(t) == Trim(t) = Empty

StillBlank_Never(t) == FALSE

\* the test of the .finally callback, after the remote overlay
StillBlank(t) == Trim(t) = Empty

ReturnEvents == {"pageshow", "visible"}

\* both handlers; reset: the WebView hands back a blanked title field
Returned(ev, reset) ==
    LET t0 == IF reset THEN Empty ELSE title
        d  == readDraft
        t1 == OverlayTitle(d, t0)
        c  == NextSlot
    IN  /\ Alive
        /\ Escalates(t1) => FreeSlots # {}
        /\ title' = t1
        /\ category' = OverlayCategory(d, category, OptionValues(options))
        /\ IF Escalates(t1)
           THEN /\ chPc' = [chPc EXCEPT ![c] = "esc_get"]
                /\ chGets' = [chGets EXCEPT ![c] = 1]
                /\ chFetches' = [chFetches EXCEPT ![c] = 0]
                /\ chFailed' = [chFailed EXCEPT ![c] = FALSE]
                /\ opLog' = Log({"localRead", "remoteGet"})
           ELSE /\ UNCHANGED chain
                /\ opLog' = Log({"localRead"})
        /\ last' = Last(ev, IF Escalates(t1) THEN c ELSE -1,
                        IF reset THEN "reset" ELSE "")
        /\ UNCHANGED <<cfg, ss, ls, options, busy, err, ok, server, remote,
                       savePc, saveBody, handoff>>

Pageshow(reset) ==
    /\ Returned("pageshow", reset)
    /\ UNCHANGED expect

\* visibilitychange with document.hidden: the handler returns at once
VisibilityHidden ==
    /\ Alive
    /\ last' = Last("hidden", -1, "")
    /\ UNCHANGED <<env, ss, ls, form, busy, err, ok, server, remote, chain,
                   savePc, saveBody, handoff, opLog>>

VisibilityVisible(reset) ==
    /\ Returned("visible", reset)
    /\ UNCHANGED expect

----------------------------------------------------------------------------
(* The chain behind a handler: remote GET, then load() if still blank *)

getDraftFromRedis_Unchecked(res) == remote

\* what getDraftFromRedis() resolves to: the draft, or null when api() threw
getDraftFromRedis(res) == IF res = "ok" THEN remote ELSE NoDraft

EscGetResponse(c, res) ==
    LET d  == getDraftFromRedis(res)
        t1 == OverlayTitle(d, title)
    IN  /\ chPc[c] = "esc_get"
        /\ title' = t1
        /\ category' = OverlayCategory(d, category, OptionValues(options))
        /\ IF ~StillBlank(t1)
           THEN /\ chPc' = [chPc EXCEPT ![c] = "done"]
                /\ UNCHANGED <<busy, chFetches, chFailed>>
           ELSE IF LoadThrows
           THEN /\ chPc' = [chPc EXCEPT ![c] = "done"]
                /\ chFailed' = [chFailed EXCEPT ![c] = TRUE]
                /\ UNCHANGED <<busy, chFetches>>
           ELSE /\ chPc' = [chPc EXCEPT ![c] = "load_fetch"]
                /\ chFetches' = [chFetches EXCEPT ![c] = @ + 1]
                /\ busy' = TRUE
                /\ UNCHANGED chFailed
        /\ last' = Last("esc_get", c, res)
        /\ UNCHANGED <<env, ss, ls, options, err, ok, server,
                       remote, chGets, savePc, saveBody, handoff, opLog>>

----------------------------------------------------------------------------
(* load(): Promise.all of the two GETs, then the overlays *)

ClearedOptions_Kept(opts) == opts

\* $category.innerHTML = ""
ClearedOptions(opts) == <<>>

\* res: "ok", "fail" (a GET is rejected), "badcats" (categories: no array)
FetchResponse(c, res) ==
    LET d    == readDraft
        opts == ClearedOptions(options) \o CatList
        vals == OptionValues(opts)
    IN  /\ chPc[c] = "load_fetch"
        /\ IF res = "ok"
           THEN /\ busy' = FALSE
                /\ options' = opts
                /\ title' = OverlayTitle(d, srvTitle)
                /\ category' =
                     OverlayCategory(d, SelectValue(srvCat, vals), vals)
                /\ chPc' = [chPc EXCEPT ![c] = "load_get"]
                /\ chGets' = [chGets EXCEPT ![c] = @ + 1]
                /\ UNCHANGED <<err, ok, chFailed>>
           ELSE /\ busy' = IF c = 0 \/ res = "badcats" THEN FALSE ELSE busy
                /\ err' = IF c = 0 THEN "load" ELSE err
                /\ ok' = IF c = 0 THEN FALSE ELSE ok
                /\ chPc' = [chPc EXCEPT ![c] = "done"]
                /\ chFailed' = [chFailed EXCEPT ![c] = TRUE]
                /\ UNCHANGED <<form, chGets>>
        /\ last' = Last("fetched", c, res)
        /\ UNCHANGED <<env, ss, ls, server, remote, chFetches,
                       savePc, saveBody, handoff, opLog>>

Bootstraps_Never(d) == FALSE

\* if (!readDraft()) writeDraft()
Bootstraps(d) == ~d.def

LoadGetResponse(c, res) ==
    LET d  == getDraftFromRedis(res)
        t1 == OverlayTitle(d, title)
        c1 == OverlayCategory(d, category, OptionValues(options))
    IN  /\ chPc[c] = "load_get"
        /\ title' = t1
        /\ category' = c1
        /\ IF Bootstraps(readDraft)
           THEN writeDraft(t1, c1)
           ELSE UNCHANGED <<ss, ls>>
        /\ busy' = IF c = 0 THEN FALSE ELSE busy
        /\ chPc' = [chPc EXCEPT ![c] = "done"]
        /\ last' = Last("loaded", c, res)
        /\ UNCHANGED <<env, options, err, ok, server, remote, chGets,
                       chFetches, chFailed, savePc, saveBody, handoff, opLog>>

----------------------------------------------------------------------------
(* Initial states *)

NetResults == {"ok", "fail"}

FetchResults == {"ok", "fail", "badcats"}

\* a page whose script has not run yet: blank form, nothing pending
Fresh ==
    /\ title = Empty
    /\ category = 0
    /\ options = <<>>
    /\ busy = FALSE
    /\ err = ""
    /\ ok = FALSE
    /\ chPc = [c \in Chains |-> "idle"]
    /\ chGets = [c \in Chains |-> 0]
    /\ chFetches = [c \in Chains |-> 0]
    /\ chFailed = [c \in Chains |-> FALSE]
    /\ savePc = "idle"
    /\ saveBody = NoDraft
    /\ handoff = [pc |-> "idle", to |-> "", body |-> NoDraft]
    /\ opLog = {}
    /\ last = Last("none", -1, "")
    /\ expect = [set |-> FALSE]

PageModes == {<<"ok", "ok">>, <<"full", "ok">>, <<"denied", "ok">>}

PageRaws == {Absent, Garbage, JSONstringify(Draft(TitleA, 2))}

PageRemotes == {NoDraft, Draft(TitleR, 2), Draft(Empty, 1)}

Init ==
    /\ recipeId \in {0, 1}
    /\ initData \in BOOLEAN
    /\ \E m \in PageModes : ssMode = m[1] /\ lsMode = m[2]
    /\ ss \in (IF ssMode = "denied" THEN {Absent} ELSE PageRaws)
    /\ ls \in (IF lsMode = "denied" THEN {Absent} ELSE PageRaws)
    /\ srvTitle = TitleS
    /\ srvCat = 1
    /\ remote \in PageRemotes
    /\ Fresh

----------------------------------------------------------------------------
(* Specifications *)

\* the steps of the asynchronous chains
Respond ==
    \/ \E res \in NetResults : PutResponse(res)
    \/ \E res \in NetResults : PatchResponse(res)
    \/ \E c \in Triggers, res \in NetResults : EscGetResponse(c, res)
    \/ \E c \in Chains, res \in FetchResults : FetchResponse(c, res)
    \/ \E c \in Chains, res \in NetResults : LoadGetResponse(c, res)

\* the events the user and the host deliver
Event ==
    \/ \E t \in UserTitles : Input(t)
    \/ \E c \in CatIds : Change(c)
    \/ Pagehide
    \/ BtnDescClick
    \/ BtnIngClick
    \/ SaveClick
    \/ \E reset \in BOOLEAN : Pageshow(reset)
    \/ VisibilityHidden
    \/ \E reset \in BOOLEAN : VisibilityVisible(reset)

\* one handler at a time: events arrive while nothing is pending
Next ==
    \/ Start
    \/ Quiescent /\ Event
    \/ Respond

Spec == Init /\ [][Next]_vars

\* the network answers every GET and PATCH; a PUT may never be answered
Fairness ==
    /\ WF_vars(\E res \in NetResults : PatchResponse(res))
    /\ WF_vars(\E c \in Triggers, res \in NetResults : EscGetResponse(c, res))
    /\ WF_vars(\E c \in Chains, res \in FetchResults : FetchResponse(c, res))
    /\ WF_vars(\E c \in Chains, res \in NetResults : LoadGetResponse(c, res))

FairSpec == Spec /\ Fairness

----------------------------------------------------------------------------
(* One return of the page with duplicated events, chains interleaved *)

\* title and category after overlaying draft d on t, c
Laid(d, t, c, vals) ==
    [title    |-> IF d.def /\ d.title # Undef /\ Trim(d.title) # Empty
                  THEN d.title ELSE t,
     category |-> IF d.def /\ d.category_id \in vals \ {0}
                  THEN d.category_id ELSE c]

\* the form and the tiers once a single firing (with the title blanked
\* first when reset) and all it starts have run, every request answered
ExpectedAfter(reset) ==
    LET d    == readDraft
        vals == OptionValues(options)
        f1   == Laid(d, IF reset THEN Empty ELSE title, category, vals)
        f2   == Laid(remote, f1.title, f1.category, vals)
        base == [title |-> srvTitle,
                 category |-> IF srvCat \in CatIds THEN srvCat ELSE 0]
        l1   == Laid(d, base.title, base.category, CatIds)
        l2   == Laid(remote, l1.title, l1.category, CatIds)
        new  == Raw("obj", Trim(l2.title), l2.category)
        kept(f) == [set |-> TRUE, det |-> TRUE, title |-> f.title,
                    category |-> f.category, options |-> options,
                    ss |-> ss, ls |-> ls]
        loaded == [set |-> TRUE, det |-> TRUE, title |-> l2.title,
                   category |-> l2.category, options |-> CatList,
                   ss |-> IF ~d.def /\ ssMode = "ok" THEN new ELSE ss,
                   ls |-> IF ~d.def /\ lsMode = "ok" THEN new ELSE ls]
    IN  IF InFlight(0)
        THEN IF reset THEN [loaded EXCEPT !.det = FALSE] ELSE loaded
        ELSE IF Trim(f1.title) # Empty THEN kept(f1)
        ELSE IF Trim(f2.title) # Empty THEN kept(f2)
        ELSE loaded

\* the first event of the return
Transition(ev, reset) ==
    /\ ~expect.set
    /\ Returned(ev, reset)
    /\ expect' = ExpectedAfter(reset)

\* the same return announced again by either event
Duplicate(ev) ==
    /\ expect.set
    /\ Returned(ev, FALSE)
    /\ UNCHANGED expect

RaceModes == {<<"ok", "ok">>, <<"full", "ok">>}

RaceRaws == {Absent, JSONstringify(Draft(TitleA, 2))}

RaceInit ==
    /\ recipeId = 1
    /\ initData = TRUE
    /\ \E m \in RaceModes : ssMode = m[1] /\ lsMode = m[2]
    /\ ss \in RaceRaws
    /\ ls \in RaceRaws
    /\ srvTitle = TitleS
    /\ srvCat \in {1, 3}
    /\ remote \in PageRemotes
    /\ Fresh

RaceNext ==
    \/ Start
    \/ \E ev \in ReturnEvents, reset \in BOOLEAN : Transition(ev, reset)
    \/ \E ev \in ReturnEvents : Duplicate(ev)
    \/ \E c \in Triggers : EscGetResponse(c, "ok")
    \/ \E c \in Chains : FetchResponse(c, "ok")
    \/ \E c \in Chains : LoadGetResponse(c, "ok")

RaceSpec == RaceInit /\ [][RaceNext]_vars

----------------------------------------------------------------------------
(* Typing while requests are pending: edits interleaved with the responses *)

EditInit ==
    /\ recipeId = 1
    /\ initData = TRUE
    /\ \E m \in RaceModes : ssMode = m[1] /\ lsMode = m[2]
    /\ ss \in RaceRaws
    /\ ls \in RaceRaws
    /\ srvTitle = TitleS
    /\ srvCat = 1
    /\ remote \in PageRemotes
    /\ Fresh

EditNext ==
    \/ Start
    \/ \E t \in UserTitles : Input(t)
    \/ \E reset \in BOOLEAN : Pageshow(reset)
    \/ \E c \in Triggers, res \in NetResults : EscGetResponse(c, res)
    \/ \E c \in Chains, res \in FetchResults : FetchResponse(c, res)
    \/ \E c \in Chains, res \in NetResults : LoadGetResponse(c, res)

EditSpec == EditInit /\ [][EditNext]_vars

----------------------------------------------------------------------------
(* The page opened again after it navigated away or was closed by save() *)

\* a new document runs the script from its first line: blank form, nothing
\* pending; the storage tiers, the remote cache and the server keep what
\* they hold
Reload ==
    /\ Started
    /\ ~Alive
    /\ Quiescent
    /\ title' = Empty
    /\ category' = 0
    /\ options' = <<>>
    /\ busy' = FALSE
    /\ err' = ""
    /\ ok' = FALSE
    /\ chPc' = [c \in Chains |-> "idle"]
    /\ chGets' = [c \in Chains |-> 0]
    /\ chFetches' = [c \in Chains |-> 0]
    /\ chFailed' = [c \in Chains |-> FALSE]
    /\ savePc' = "idle"
    /\ saveBody' = NoDraft
    /\ handoff' = [pc |-> "idle", to |-> "", body |-> NoDraft]
    /\ last' = Last("reload", -1, "")
    /\ UNCHANGED <<env, ss, ls, server, remote, opLog>>

\* no remote draft to begin with: the remote tier holds only what a
\* hand-off pushed
ReloadInit ==
    /\ recipeId = 1
    /\ initData = TRUE
    /\ \E m \in RaceModes : ssMode = m[1] /\ lsMode = m[2]
    /\ ss \in RaceRaws
    /\ ls \in RaceRaws
    /\ srvTitle = TitleS
    /\ srvCat = 1
    /\ remote = NoDraft
    /\ Fresh

ReloadNext ==
    \/ Start
    \/ Reload
    \/ Quiescent /\ \E t \in UserTitles : Input(t)
    \/ Quiescent /\ BtnDescClick
    \/ Quiescent /\ SaveClick
    \/ \E res \in NetResults : PutResponse(res)
    \/ \E res \in NetResults : PatchResponse(res)
    \/ \E res \in FetchResults : FetchResponse(0, res)
    \/ \E res \in NetResults : LoadGetResponse(0, res)

ReloadSpec == ReloadInit /\ [][ReloadNext]_vars

----------------------------------------------------------------------------
(* Claims *)

TierHolds(mode, raw, t, c) ==
    mode = "ok" => raw = Raw("obj", t, c)

WriteEvents == {"input", "change", "pagehide", "handoff"}

\* C1: a draft write merges with the draft read before it: a blank form
\* title keeps the previous draft's title, an unset form category keeps the
\* previous category_id, and a field set in the form is stored as the form
\* has it (the title trimmed), in every tier that accepts the write.
C1_MergePreservingWrite ==
    [][(last'.ev \in WriteEvents /\ recipeId # 0) =>
          LET prev == readDraft
              t    == IF Trim(title') # Empty THEN Trim(title')
                      ELSE IF prev.def /\ HasText(prev.title) THEN prev.title
                      ELSE Empty
              c    == IF category' # 0 THEN category'
                      ELSE IF prev.def THEN prev.category_id ELSE 0
          IN  /\ TierHolds(ssMode, ss', t, c)
              /\ TierHolds(lsMode, ls', t, c)]_vars

C1_Witness ==
    /\ last.ev = "input"
    /\ title = TitleB
    /\ category = 0
    /\ ss = Raw("obj", <<"B">>, 2)
    /\ ls = Raw("obj", <<"B">>, 2)

TierEmpty(mode, raw) == mode = "denied" \/ raw.kind = "absent"

\* C2: the step that completes a successful save leaves no draft in either
\* local tier, and a step that ends save() in failure (validation rejection
\* or failed PATCH) leaves both tiers exactly as they were.
C2_SaveClearsOnlyOnSuccess ==
    [][/\ last'.ev = "save_ok" =>
            /\ readDraft' = NoDraft
            /\ TierEmpty(ssMode, ss')
            /\ TierEmpty(lsMode, ls')
       /\ last'.ev \in {"save_fail", "save_rejected"} =>
            /\ ss' = ss
            /\ ls' = ls
            /\ readDraft' = readDraft]_vars

C2_Witness ==
    /\ last.ev = "save_fail"
    /\ err = "patch"
    /\ readDraft = Draft(Trim(TitleB), 1)
    /\ title = TitleB

\* C3: a pageshow / visible handler that finds the title blank while the
\* local draft has a title with text leaves the title equal to the draft's
\* and starts no chain: no remote GET, no recipe fetch.
C3_BlankFormRecovery ==
    [][(/\ last'.ev \in ReturnEvents
        /\ last'.res = "reset" \/ Trim(title) = Empty
        /\ readDraft.def
        /\ HasText(readDraft.title)) =>
          /\ title' = readDraft.title
          /\ chain' = chain
          /\ last'.c = -1]_vars

C3_Witness ==
    /\ last.ev = "pageshow"
    /\ last.res = "reset"
    /\ title = TitleS
    /\ readDraft = Draft(TitleS, 1)
    /\ \A c \in Chains : ~InFlight(c)

NoLocalDraft == ss.kind = "absent" /\ ls.kind = "absent"

RemoteHasTitle == remote.def /\ HasText(remote.title)

\* C4: a handler's chain that starts with a blank title, nothing in the
\* local tiers and no title in the remote tier runs to its end having
\* issued exactly one recipe fetch, and, unless that fetch was rejected,
\* with the server's title in the form.
C4_FullEscalationFallback ==
    \A c \in Triggers :
        (/\ chPc[c] = "esc_get"
         /\ NoLocalDraft
         /\ ~RemoteHasTitle
         /\ HasText(srvTitle)
         /\ ~LoadThrows)
        ~> (/\ chPc[c] = "done"
            /\ chFetches[c] = 1
            /\ chFailed[c] \/ title = srvTitle)

C4_Witness ==
    /\ last.ev = "loaded"
    /\ last.c = 1
    /\ chPc[1] = "done"
    /\ chFetches[1] = 1
    /\ chGets[1] = 2
    /\ ~chFailed[1]
    /\ chFailed[0]
    /\ ~RemoteHasTitle
    /\ title = srvTitle

\* C5: load() that finds no local draft ends with the remote draft's title
\* when the remote GET returns one with text, and with the server's title
\* when the remote GET fails or returns no title.
C5_InitialLoadPrecedence ==
    [][(last'.ev = "loaded" /\ NoLocalDraft) =>
          title' = IF last'.res = "ok" /\ RemoteHasTitle
                   THEN remote.title ELSE srvTitle]_vars

C5_Witness ==
    /\ last = Last("loaded", 0, "ok")
    /\ remote = Draft(TitleR, 2)
    /\ srvTitle = TitleS
    /\ title = TitleR
    /\ ss = Raw("obj", TitleR, 2)

\* C6: load() that finds both local tiers empty and writable leaves in both
\* a draft with the title and category the form shows when load() ends.
C6_NoDraftBootstrap ==
    [][(/\ last'.ev = "loaded"
        /\ NoLocalDraft
        /\ ssMode = "ok"
        /\ lsMode = "ok") =>
          /\ ss' = Raw("obj", title', category')
          /\ ls' = Raw("obj", title', category')]_vars

C6_Witness ==
    /\ last = Last("loaded", 0, "fail")
    /\ title = TitleS
    /\ category = 1
    /\ ss = Raw("obj", TitleS, 1)
    /\ ls = Raw("obj", TitleS, 1)

\* C7: a value in the tab-scoped tier that does not parse as a draft makes
\* the read fall back to the durable tier's draft.
C7_CorruptFallsBackToDurable ==
    (/\ ~sessionGetThrows
     /\ ss.kind \notin {"absent", "obj"}
     /\ ~localGetThrows
     /\ ls.kind = "obj") => readDraft = JSONparseDraft(ls)

\* C9: once a hand-off button is clicked, the page navigates, whether or
\* not the PUT is ever answered.
C9_NavigationNotGatedOnPut ==
    (handoff.pc = "put" /\ ~LoadThrows) ~> (handoff.pc = "navigated")

\* C10: after a precondition error the message is shown and no draft
\* operation and no request is made.
C10_PreconditionStopsDraftOps ==
    (Started /\ LoadThrows) => (err # "" /\ opLog = {})

Settled == \A c \in Chains : chPc[c] # "idle" /\ ~InFlight(c)

AsExpected ==
    /\ title = expect.title
    /\ category = expect.category
    /\ options = expect.options
    /\ ss = expect.ss
    /\ ls = expect.ls

SaveEvents == {"save_click", "save_rejected"}

\* C11: a save click on a form whose trimmed title is empty or whose
\* category is unset issues no PATCH, shows an error message and leaves
\* both local tiers as they were.
C11_LocalValidationOnSave ==
    [][(/\ last'.ev \in SaveEvents
        /\ Trim(title) = Empty \/ category = 0) =>
          /\ savePc' = "idle"
          /\ saveBody' = NoDraft
          /\ err' \in {"title_empty", "no_category"}
          /\ ~ok'
          /\ ss' = ss
          /\ ls' = ls]_vars

C11_Witness ==
    /\ last.ev = "save_rejected"
    /\ err = "no_category"
    /\ title = TitleB
    /\ category = 0
    /\ savePc = "idle"
    /\ readDraft = Draft(<<"B">>, 2)

RemoteGetEvents == {"esc_get", "loaded"}

\* C12: a failed remote draft GET or PUT shows no message and is not issued
\* again by the step that receives it; the failed GET changes nothing in
\* the form; and the first load(), its recipe fetch answered, still ends
\* with the option list and with the local draft's title over the server's.
C12_RemoteFailuresSuppressed ==
    [][/\ (last'.ev \in RemoteGetEvents /\ last'.res = "fail") =>
            /\ err' = err
            /\ ok' = ok
            /\ title' = title
            /\ category' = category
            /\ chGets' = chGets
       /\ (last'.ev = "navigate" /\ last'.res = "fail") =>
            /\ err' = err
            /\ ok' = ok
            /\ remote' = remote
            /\ handoff'.pc = "navigated"
       /\ last' = Last("loaded", 0, "fail") =>
            /\ chPc'[0] = "done"
            /\ ~chFailed'[0]
            /\ ~busy'
            /\ options' = CatList
            /\ title' = IF readDraft.def /\ HasText(readDraft.title)
                        THEN readDraft.title ELSE srvTitle]_vars

C12_Witness ==
    /\ last = Last("loaded", 0, "fail")
    /\ remote = Draft(TitleR, 2)
    /\ title = TitleA
    /\ category = 2
    /\ err = ""
    /\ ~busy

\* C13: every rejected recipe / category fetch of load(), also of a load()
\* started by a return handler's chain, and every rejected PATCH leaves an
\* error message; steps of the local and remote tiers leave the message
\* as it was.
C13_AuthoritativeFailuresSurfaced ==
    [][/\ (last'.ev = "fetched" /\ last'.res # "ok") => err' = "load"
       /\ last'.ev = "save_fail" => err' = "patch"
       /\ last'.ev \in RemoteGetEvents \cup WriteEvents \cup {"navigate"} =>
            err' = err]_vars

\* C14: when the local draft and the remote draft both have a title with
\* text (or a category among the options) and the two differ, the form
\* shows the local draft's value once load() or a handler's chain has
\* applied the remote draft.
C14_LocalPreferredOverRemote ==
    [][(last'.ev \in RemoteGetEvents /\ readDraft.def /\ remote.def) =>
          LET d    == readDraft
              vals == OptionValues(options) \ {0}
          IN  /\ (/\ HasText(d.title)
                  /\ HasText(remote.title)
                  /\ remote.title # d.title) => title' = d.title
              /\ (/\ d.category_id \in vals
                  /\ remote.category_id \in vals
                  /\ remote.category_id # d.category_id) =>
                    category' = d.category_id]_vars

TierHoldsTitle(mode, raw, t) ==
    mode = "ok" => (raw.kind = "obj" /\ raw.title = t)

\* C15: an input event that leaves the title field empty stores a draft
\* whose title is the empty string, in every tier that accepts the write.
C15_ClearedFieldStoredEmpty ==
    [][(last'.ev = "input" /\ title' = Empty /\ ~LoadThrows) =>
          /\ TierHoldsTitle(ssMode, ss', Empty)
          /\ TierHoldsTitle(lsMode, ls', Empty)]_vars

TierReflects(mode, raw, t, c) ==
    mode = "ok" =>
        /\ raw.kind = "obj"
        /\ Trim(t) # Empty => raw.title = Trim(t)
        /\ c # 0 => raw.category_id = c

C17_ReadAfterWrite ==
    [][(/\ last'.ev \in WriteEvents
        /\ ~LoadThrows
        /\ ss.kind # "garbage"
        /\ ls.kind # "garbage"
        /\ ssMode = "ok" \/ lsMode = "ok") =>
          readDraft' = MergedDraft(title', category')]_vars

LoadInFlight(c) == chPc[c] \in {"load_fetch", "load_get"}

\* C18: whenever no load() and no save() is in flight, the save button is
\* enabled.
C18_BusyNeverStuck ==
    (/\ Started
     /\ \A c \in Chains : ~LoadInFlight(c)
     /\ savePc # "patch") => ~busy

ResponseEvents == {"fetched", "loaded", "esc_get"}

\* C19: a response of a recipe fetch or of a remote draft GET that is
\* applied right after the user typed a title (so the request was pending
\* during the edit) leaves the typed title in the form, outer blanks aside;
\* stated for a page whose two local tiers both accept the draft write.
C19_EditSurvivesResponses ==
    [][(/\ last.ev = "input"
        /\ Trim(title) # Empty
        /\ ssMode = "ok"
        /\ lsMode = "ok"
        /\ last'.ev \in ResponseEvents) =>
          Trim(title') = Trim(title)]_vars

\* the server's title differs from the one it started with only through a
\* successful save
SavedBefore == srvTitle # TitleS

\* C20: once a save succeeded, a first load() of a page opened later, with
\* no edit since the save (the local tiers are still empty) and its
\* requests answered, ends with the saved title in the form.
C20_SavedValuesSurviveReload ==
    [][(/\ last' = Last("loaded", 0, "ok")
        /\ SavedBefore
        /\ NoLocalDraft) => title' = srvTitle]_vars

====
